---- MODULE Spec2Model ----
(***************************************************************************)
(* Model of the voxtype daemon event loop (src/src/daemon.rs, Daemon::run). *)
(*                                                                         *)
(* The loop is an async function.  Each action below is one select! arm    *)
(* up to its next suspension point that matters for the session state:     *)
(* the awaited transcription task (line 218-221) and the awaited output    *)
(* delivery (line 235-238).  While the handler is suspended there the      *)
(* select! of line 141 is not being polled: pc records where run is.       *)
(* Time is counted in ticks of 50 ms.                                      *)
(***************************************************************************)
EXTENDS Integers, Sequences, FiniteSets, TLC

\* ---------------------------------------------------------------- bounds
MaxQueue == 2            \* capacity of the hotkey channel in the model
MaxDurationTicks == 2    \* config.audio.max_duration_secs, in ticks
MaxLines == 2            \* lines of worker output the parser is applied to
MaxSamples == 2          \* length of the buffers encoded sample by sample
PipeCap == 65536         \* bytes the worker's stdin pipe holds
StderrCap == 5           \* units the worker's stderr pipe holds; an eprintln! line is one unit
MaxCalls == 2            \* calls of transcribe
MaxHigh == 1             \* buffer lengths reach MaxHigh * 2^32 + 9,600,001 samples

\* ------------------------------------------------------ program constants
SAMPLE_RATE == 16000     \* divisor of line 196
SleepTicks == 2          \* Duration::from_millis(100) of line 274, 2 x 50 ms

\* sample counts capture.stop() may return (around the 0.3 s threshold)
SampleCounts == {0, 1600, 4799, 4800, 32000}
\* texts the transcriber may return
Texts == {"", "hello world"}

HotkeyEvents == {"Pressed", "Released"}
States == {"Idle", "Recording", "Transcribing", "Outputting"}
Absent == "<absent>"
Truncated == ""
WriteOutcomes == {"ok", "dir_err", "write_err_kept", "write_err_truncated"}
NoSamples == -1
NoResult == [kind |-> "None", text |-> ""]
TranscribeResults ==
    {[kind |-> "Ok", text |-> t] : t \in Texts}
      \cup {[kind |-> "Err", text |-> ""], [kind |-> "JoinErr", text |-> ""]}

VARIABLES
    pc,               \* where run() is: start, select, transcribe, output, cleanup, returned_ok, returned_err
    state,            \* let mut state (line 123)
    audio,            \* Transcribing { audio }: number of samples held
    text,             \* Outputting { text }
    elapsed,          \* now - started_at of Recording, in ticks, saturating
    sleepLeft,        \* ticks left on the sleep future of the current select!
    audio_capture,    \* let mut audio_capture (line 126): "None" or "Some"
    hotkey_rx,        \* events sent by the listener and not yet received
    ctrl_c,           \* interrupt signal observed by the ctrl_c future: "none" or "pending"
    state_file_path,  \* Daemon.state_file_path is Some
    stateFile,        \* content of the state file, or Absent
    writeFailed,      \* some write of the state file has failed so far
    logged,           \* outcome message traced by the last step
    text_result,      \* let text_result (line 218) of the current utterance
    transcribeCalls,  \* calls of transcriber.transcribe for the current utterance
    outputLog,        \* texts handed to output_with_fallback for the current utterance
    stopCalls,        \* calls of capture.stop() for the current utterance
    samples,          \* samples.len() of Ok(samples) (line 194), NoSamples if none
    listenerStopped,  \* hotkey_listener.stop() outcome: "no", "ok", "err"
    on_recording_start, \* config.output.notification.on_recording_start (line 152)
    notified          \* the handler of the last key press taken while Idle called send_notification (line 153)

\* SubprocessTranscriber::transcribe (subprocess.rs) and run_worker (worker.rs)
VARIABLES
    mode,             \* what is running: "daemon", "parent" (transcribe and its worker), "standalone" (worker alone), "fn"
    ppc,              \* where transcribe() is
    wpc,              \* where the worker process is
    buf,              \* samples: &[f32] given to transcribe: [len, pat]
    calls,            \* calls of transcribe so far
    spawnCalls,       \* cmd.spawn() calls in the current call of transcribe
    pid,              \* worker processes created so far
    handle,           \* pid of the process whose streams the current call holds, 0 if none
    toWrite,          \* bytes of the current write_all still to be written
    written,          \* bytes written to the worker's stdin so far
    stdinPipe,        \* worker stdin pipe: [hdr, body, open]
    wNeed,            \* bytes the current read_exact of the worker still needs
    wRead,            \* bytes the worker has read from stdin so far
    count_buf,        \* let mut count_buf (worker.rs:50)
    sample_count,     \* let sample_count (worker.rs:58)
    wAlloc,           \* samples.len() of the worker's buffer (worker.rs:77), 0 before it exists
    stdoutPipe,       \* worker stdout pipe: symbols not yet read by the parent
    output,           \* let mut output (subprocess.rs:127)
    stderrPipe,       \* units in the worker stderr pipe
    engineLog,        \* units the inference engine still writes to stderr
    wResp,            \* the WorkerResponse the worker constructed, or NoResp
    respWrites,       \* lines write_response has written to stdout
    errWrites,        \* eprintln! calls completed
    engineLoaded,     \* WhisperTranscriber::new was called
    wResult,          \* let result (worker.rs:115), or NoReturn
    exitStatus,       \* "none", "running", "exit0" (run_worker returned Ok), "exit1" (it returned Err), "signal"
    response,         \* let response (subprocess.rs:175), Invalid before
    reaped,           \* child.wait() returned
    stderrRead,       \* the parent read the error stream (subprocess.rs:184-190)
    result            \* what transcribe returned, or NoReturn

\* application of the pure functions of the protocol to drawn inputs
VARIABLES
    fnOp,             \* function applied by the last step
    fnIn,             \* its input
    fnOut             \* its output

dvars == <<pc, state, audio, text, elapsed, sleepLeft, audio_capture, hotkey_rx,
           ctrl_c, state_file_path, stateFile, writeFailed, logged, text_result,
           transcribeCalls, outputLog, stopCalls, samples, listenerStopped,
           on_recording_start, notified>>

\* transcribe's side, the worker's side, the three pipes
pside == <<ppc, buf, calls, spawnCalls, pid, handle, toWrite, written, output,
           response, reaped, stderrRead, result>>

wside == <<wpc, wNeed, wRead, count_buf, sample_count, wAlloc, engineLog, wResp,
           respWrites, errWrites, engineLoaded, wResult, exitStatus>>

pipes == <<stdinPipe, stdoutPipe, stderrPipe>>

pvars == <<pside, wside, pipes>>

fvars == <<fnOp, fnIn, fnOut>>

vars == <<dvars, mode, pvars, fvars>>

\* --------------------------------------------- strings and wire formats
\* A string is a sequence of characters; NL, QT and BS are the newline,
\* the double quote and the backslash, every other atom stands for itself.
NL == "<NL>"
QT == "<QT>"
BS == "<BS>"
K_ok == "<\"ok\":>"
K_text == "<\"text\":>"
K_error == "<\"error\":>"

\* Option<String>
None == [some |-> FALSE, val |-> <<>>]

Some(v) == [some |-> TRUE, val |-> v]

\* WorkerResponse::success / WorkerResponse::error (worker.rs:26-37)
success(t) == [variant |-> "Success", ok |-> TRUE, body |-> t]

error(m) == [variant |-> "Error", ok |-> FALSE, body |-> m]

\* serde_json string escaping
EscapeChar(ch) ==
    CASE ch = NL -> <<BS, "n">>
      [] ch = QT -> <<BS, QT>>
      [] ch = BS -> <<BS, BS>>
      [] OTHER -> <<ch>>

RECURSIVE Escape(_)
Escape(str) ==
    IF str = <<>> THEN <<>> ELSE EscapeChar(Head(str)) \o Escape(Tail(str))

JsonString(str) == <<QT>> \o Escape(str) \o <<QT>>


\* variant: the string is written between quotes as it is
to_string_Unescaped(r) ==
    <<"{", K_ok, IF r.ok THEN "true" ELSE "false", ",",
      IF r.variant = "Success" THEN K_text ELSE K_error>>
        \o <<QT>> \o r.body \o <<QT, "}">>

\* serde_json::to_string of the untagged enum (worker.rs:19-24, 136)
to_string(r) ==
    <<"{", K_ok, IF r.ok THEN "true" ELSE "false", ",",
      IF r.variant = "Success" THEN K_text ELSE K_error>>
        \o JsonString(r.body) \o <<"}">>

\* writeln!(stdout, "{}", json) (worker.rs:137)
writeln(json) == json \o <<NL>>

\* the parent's WorkerResponse (subprocess.rs:25-32), or a parse error
Invalid == [valid |-> FALSE, ok |-> FALSE, text |-> None, error |-> None]

NoValue == [good |-> FALSE, kind |-> "", val |-> <<>>, rest |-> <<>>]

\* a JSON string, read from after its opening quote
RECURSIVE ReadString(_, _)
ReadString(toks, acc) ==
    IF toks = <<>> THEN NoValue
    ELSE IF Head(toks) = QT
      THEN [good |-> TRUE, kind |-> "string", val |-> acc, rest |-> Tail(toks)]
    ELSE IF Head(toks) = NL THEN NoValue
    ELSE IF Head(toks) = BS
      THEN IF Len(toks) < 2 THEN NoValue
           ELSE IF toks[2] = "n"
             THEN ReadString(SubSeq(toks, 3, Len(toks)), Append(acc, NL))
           ELSE IF toks[2] \in {QT, BS}
             THEN ReadString(SubSeq(toks, 3, Len(toks)), Append(acc, toks[2]))
           ELSE NoValue
    ELSE ReadString(Tail(toks), Append(acc, Head(toks)))

\* a JSON value: true, false, null or a string
ReadValue(toks) ==
    IF toks = <<>> THEN NoValue
    ELSE IF Head(toks) \in {"true", "false"}
      THEN [good |-> TRUE, kind |-> "bool", val |-> <<Head(toks)>>, rest |-> Tail(toks)]
    ELSE IF Head(toks) = "null"
      THEN [good |-> TRUE, kind |-> "null", val |-> <<>>, rest |-> Tail(toks)]
    ELSE IF Head(toks) = QT THEN ReadString(Tail(toks), <<>>)
    ELSE NoValue

\* the fields of the object, as the derived Deserialize reads them: a
\* duplicate field, a value of the wrong type, a missing `ok` and trailing
\* characters are errors; null is None for the optional fields
RECURSIVE ReadFields(_, _)
ReadFields(toks, acc) ==
    IF toks = <<>> \/ Head(toks) \notin {K_ok, K_text, K_error} THEN Invalid
    ELSE LET key == Head(toks)
             v == ReadValue(Tail(toks))
             seen == acc.seen
             next ==
               CASE key = K_ok ->
                      [acc EXCEPT !.ok = (v.val = <<"true">>), !.seen = seen \cup {key}]
                 [] key = K_text ->
                      [acc EXCEPT !.text = IF v.kind = "null" THEN None ELSE Some(v.val),
                                  !.seen = seen \cup {key}]
                 [] key = K_error ->
                      [acc EXCEPT !.error = IF v.kind = "null" THEN None ELSE Some(v.val),
                                  !.seen = seen \cup {key}]
             typeOk == IF key = K_ok THEN v.kind = "bool"
                       ELSE v.kind \in {"string", "null"}
         IN IF ~v.good \/ ~typeOk \/ key \in seen THEN Invalid
            ELSE IF v.rest = <<"}">>
              THEN IF K_ok \in next.seen
                     THEN [valid |-> TRUE, ok |-> next.ok, text |-> next.text,
                           error |-> next.error]
                     ELSE Invalid
            ELSE IF v.rest # <<>> /\ Head(v.rest) = ","
              THEN ReadFields(Tail(v.rest), next)
            ELSE Invalid

\* serde_json::from_str::<WorkerResponse> (subprocess.rs:135)
from_str(line) ==
    IF line = <<>> \/ Head(line) # "{" THEN Invalid
    ELSE ReadFields(Tail(line),
                    [ok |-> FALSE, text |-> None, error |-> None, seen |-> {}])

\* str::lines (subprocess.rs:133): split at newlines, no empty last line
\* after a final newline
RECURSIVE SplitLines(_, _, _)
SplitLines(str, cur, acc) ==
    IF str = <<>> THEN (IF cur = <<>> THEN acc ELSE Append(acc, cur))
    ELSE IF Head(str) = NL THEN SplitLines(Tail(str), <<>>, Append(acc, cur))
    ELSE SplitLines(Tail(str), Append(cur, Head(str)), acc)

lines(str) == SplitLines(str, <<>>, <<>>)


\* variant: the first line is taken
last_line_First(str) ==
    LET ls == lines(str) IN IF ls = <<>> THEN <<>> ELSE ls[1]

\* output.lines().last().unwrap_or("") (subprocess.rs:133)
last_line(str) ==
    LET ls == lines(str) IN IF ls = <<>> THEN <<>> ELSE ls[Len(ls)]

\* read_worker_response after a successful read_to_string (subprocess.rs:132-140)
read_worker_response(out) == from_str(last_line(out))

\* Result<String, TranscribeError>
Ok(t) == [kind |-> "Ok", variant |-> "", val |-> t]

Err(variant, m) == [kind |-> "Err", variant |-> variant, val |-> m]


\* variant: a present text wins over ok=false
resolve_TextFirst(r) ==
    IF r.text.some THEN Ok(r.text.val)
    ELSE IF r.ok THEN Err("InferenceFailed", <<"Worker returned ok but no text">>)
    ELSE Err("InferenceFailed",
             IF r.error.some THEN r.error.val ELSE <<"Unknown worker error">>)

\* Handle response (subprocess.rs:198-207)
resolve(r) ==
    IF r.ok
      THEN IF r.text.some THEN Ok(r.text.val)
           ELSE Err("InferenceFailed", <<"Worker returned ok but no text">>)
      ELSE Err("InferenceFailed",
               IF r.error.some THEN r.error.val ELSE <<"Unknown worker error">>)

\* samples.len() as u32 (subprocess.rs:100): the length modulo 2^32,
\* computed on 16-bit halves
LenAsU32(n) == (n % 65536) + 65536 * ((n \div 65536) % 65536)

\* samples.len() as u32 (subprocess.rs:100) for a length hi * 2^32 + lo on a
\* 64-bit host: the conversion keeps the low 32 bits
WideAsU32(l) == LenAsU32(l.lo)

\* u32::to_le_bytes (subprocess.rs:102)
to_le_bytes(c) ==
    <<c % 256, (c \div 256) % 256, (c \div 65536) % 256, (c \div 16777216) % 256>>

\* u32::from_le_bytes (worker.rs:58)
from_le_bytes(b) == b[1] + 256 * b[2] + 65536 * b[3] + 16777216 * b[4]

\* an f32 is its four bytes, most significant first; in memory they lie
\* in the byte order of the host (subprocess.rs:106-111, worker.rs:78-83)
NativeBytes(w, endian) == IF endian = "LE" THEN <<w[4], w[3], w[2], w[1]>> ELSE w


\* variant: the worker decodes with from_le_bytes whatever the host
NativeWord_AlwaysLE(b, endian) == <<b[4], b[3], b[2], b[1]>>

NativeWord(b, endian) == IF endian = "LE" THEN <<b[4], b[3], b[2], b[1]>> ELSE b

\* sample i (from 0) of a buffer [len, pat]: pat repeated
Sample(b, i) == b.pat[(i % Len(b.pat)) + 1]

\* byte k (from 0) of what write_audio_to_worker writes (subprocess.rs:100-114)
PayloadByte(b, endian, k) ==
    IF k < 4 THEN to_le_bytes(LenAsU32(b.len))[k + 1]
    ELSE NativeBytes(Sample(b, (k - 4) \div 4), endian)[((k - 4) % 4) + 1]

\* number of bytes the two write_all calls write (subprocess.rs:102, 109-112)
PayloadLen(b) == Len(to_le_bytes(LenAsU32(b.len))) + b.len * 4

\* what run_worker decodes from the payload (worker.rs:50-58, 77-85)
WorkerCount(b, endian) ==
    from_le_bytes([k \in 1..4 |-> PayloadByte(b, endian, k - 1)])

WorkerSample(b, endian, i) ==
    NativeWord([k \in 1..4 |-> PayloadByte(b, endian, 4 + 4 * i + k - 1)], endian)

\* const MAX_SAMPLES (worker.rs:62)
MAX_SAMPLES == 16000 * 60 * 10

\* variant: the ceiling is twice as high
validate_CeilingDoubled(c) ==
    IF c > 2 * MAX_SAMPLES THEN "too_large"
    ELSE IF c = 0 THEN "empty"
    ELSE "ok"

\* worker.rs:63, 71: the two tests of the sample count
validate(c) ==
    IF c > MAX_SAMPLES THEN "too_large"
    ELSE IF c = 0 THEN "empty"
    ELSE "ok"

\* ---------------------------------------------------------------- helpers

\* State::is_idle / State::is_recording as used at lines 147, 180, 274
is_idle_NotGuarded(s) == s \in {"Idle", "Recording"}

is_idle(s) == s = "Idle"

is_recording(s) == s = "Recording"


TooShort_OffByOne(n) == n * 10 <= 3 * SAMPLE_RATE

\* line 196-199: samples.len() as f32 / 16000.0 < 0.3
\* (n / 16000 < 3 / 10 decided exactly; f32 rounding does not move the
\* threshold, the quotients one sample away differ by 6e-5)
TooShort(n) == n * 10 < 3 * SAMPLE_RATE

\* line 276: duration > max_duration
TimedOut(d) == d > MaxDurationTicks

\* write_state_file (lines 35-49): create_dir_all failure returns early,
\* fs::write failure may leave the old content or a truncated file
write_state_file(file, name, o) ==
    CASE o = "ok" -> name
      [] o = "dir_err" -> file
      [] o = "write_err_kept" -> file
      [] o = "write_err_truncated" -> Truncated


\* variant: the path is unwrapped instead of matched, the loop does not get
\* past update_state when no path is configured
update_state_Unwrapped(name) ==
    /\ state_file_path
    /\ \E o \in WriteOutcomes :
          /\ stateFile' = write_state_file(stateFile, name, o)
          /\ writeFailed' = (writeFailed \/ o # "ok")

update_state_Skipped(name) ==
    IF name = "idle" THEN UNCHANGED <<stateFile, writeFailed>>
    ELSE \E o \in WriteOutcomes :
           /\ stateFile' = IF state_file_path
                             THEN write_state_file(stateFile, name, o)
                             ELSE stateFile
           /\ writeFailed' = (writeFailed \/ (state_file_path /\ o # "ok"))

\* Daemon::update_state (lines 77-81)
update_state(name) ==
    \E o \in WriteOutcomes :
        /\ stateFile' = IF state_file_path
                          THEN write_state_file(stateFile, name, o)
                          ELSE stateFile
        /\ writeFailed' = (writeFailed \/ (state_file_path /\ o # "ok"))

\* the sleep future is created anew by every evaluation of select! (line 274)
Rearm == sleepLeft' = SleepTicks

Saturate(n) == IF n > MaxDurationTicks + 1 THEN MaxDurationTicks + 1 ELSE n

\* ------------------------------------------------ states of the parts at rest
NoResp == [variant |-> "None", ok |-> FALSE, body |-> <<>>]

NoReturn == [kind |-> "None", variant |-> "", val |-> <<>>]

NoPipe == [hdr |-> <<>>, body |-> 0, open |-> FALSE]

\* transcribe has not been called, no worker exists
PIdle ==
    /\ ppc = "idle"
    /\ wpc = "none"
    /\ buf = [len |-> 0, pat |-> <<>>]
    /\ calls = 0
    /\ spawnCalls = 0
    /\ pid = 0
    /\ handle = 0
    /\ toWrite = 0
    /\ written = 0
    /\ stdinPipe = NoPipe
    /\ wNeed = 0
    /\ wRead = 0
    /\ count_buf = <<>>
    /\ sample_count = 0
    /\ wAlloc = 0
    /\ stdoutPipe = <<>>
    /\ output = <<>>
    /\ stderrPipe = 0
    /\ engineLog = 0
    /\ wResp = NoResp
    /\ respWrites = 0
    /\ errWrites = 0
    /\ engineLoaded = FALSE
    /\ wResult = NoReturn
    /\ exitStatus = "none"
    /\ response = Invalid
    /\ reaped = FALSE
    /\ stderrRead = FALSE
    /\ result = NoReturn

\* no function has been applied
FIdle ==
    /\ fnOp = "none"
    /\ fnIn = <<>>
    /\ fnOut = <<>>

\* ------------------------------------------------------------------- Init
\* lines 85-126: the session starts Idle, no capture handle is held; the
\* configuration is any, a state file may be left from an earlier run
DStart ==
    /\ pc = "start"
    /\ state = "Idle"
    /\ audio = 0
    /\ text = ""
    /\ elapsed = 0
    /\ sleepLeft = SleepTicks
    /\ audio_capture = "None"
    /\ hotkey_rx = <<>>
    /\ ctrl_c = "none"
    /\ state_file_path \in BOOLEAN
    /\ stateFile \in (IF state_file_path THEN {Absent, "transcribing"} ELSE {Absent})
    /\ writeFailed = FALSE
    /\ logged = "none"
    /\ text_result = NoResult
    /\ transcribeCalls = 0
    /\ outputLog = <<>>
    /\ stopCalls = 0
    /\ samples = NoSamples
    /\ listenerStopped = "no"
    /\ on_recording_start \in BOOLEAN
    /\ notified = FALSE

Init ==
    /\ DStart
    /\ mode = "daemon"
    /\ PIdle
    /\ FIdle

\* ---------------------------------------------------------------- actions

\* lines 85-137: initialisation; any failing step returns the error
Startup ==
    /\ pc = "start"
    /\ \/ /\ pc' = "returned_err"
          /\ logged' = "init failed"
          /\ UNCHANGED <<stateFile, writeFailed>>
       \/ /\ pc' = "select"
          /\ logged' = "Listening for hotkey"
          /\ update_state("idle")
    /\ UNCHANGED <<state, audio, text, elapsed, sleepLeft, audio_capture, hotkey_rx,
                   ctrl_c, state_file_path, text_result, transcribeCalls,
                   outputLog, stopCalls, samples, listenerStopped>>
    /\ UNCHANGED <<on_recording_start, notified>>
    /\ UNCHANGED <<mode, pvars, fvars>>

\* the hotkey listener sends an event into the channel; the model records
\* the session state at the time of sending with the event
Deliver ==
    /\ pc \in {"select", "transcribe", "output"}
    /\ Len(hotkey_rx) < MaxQueue
    /\ \E ev \in HotkeyEvents :
          hotkey_rx' = Append(hotkey_rx, [event |-> ev, sentIn |-> state])
    /\ UNCHANGED <<pc, state, audio, text, elapsed, sleepLeft, audio_capture,
                   ctrl_c, state_file_path, stateFile, writeFailed, logged,
                   text_result, transcribeCalls, outputLog, stopCalls, samples, listenerStopped>>
    /\ UNCHANGED <<on_recording_start, notified>>
    /\ UNCHANGED <<mode, pvars, fvars>>

\* SIGINT arrives.  The ctrl_c future exists only while select! is polled
\* (line 293); a signal arriving while the handler runs may or may not be
\* seen by the future the next select! creates.
Signal ==
    /\ pc \in {"select", "transcribe", "output"}
    /\ ctrl_c = "none"
    /\ ctrl_c' \in (IF pc = "select" THEN {"pending"} ELSE {"pending", "none"})
    /\ UNCHANGED <<pc, state, audio, text, elapsed, sleepLeft, audio_capture,
                   hotkey_rx, state_file_path, stateFile, writeFailed, logged,
                   text_result, transcribeCalls, outputLog, stopCalls, samples, listenerStopped>>
    /\ UNCHANGED <<on_recording_start, notified>>
    /\ UNCHANGED <<mode, pvars, fvars>>

\* 50 ms pass while the loop waits in select! during a recording
Tick ==
    /\ pc = "select"
    /\ is_recording(state)
    /\ sleepLeft > 0
    /\ sleepLeft' = sleepLeft - 1
    /\ elapsed' = Saturate(elapsed + 1)
    /\ UNCHANGED <<pc, state, audio, text, audio_capture, hotkey_rx, ctrl_c,
                   state_file_path, stateFile, writeFailed, logged, text_result,
                   transcribeCalls, outputLog, stopCalls, samples, listenerStopped>>
    /\ UNCHANGED <<on_recording_start, notified>>
    /\ UNCHANGED <<mode, pvars, fvars>>

\* lines 145-176, state.is_idle(): create and start the capture
PressedIdle ==
    /\ pc = "select"
    /\ hotkey_rx # <<>>
    /\ Head(hotkey_rx).event = "Pressed"
    /\ is_idle(state)
    /\ hotkey_rx' = Tail(hotkey_rx)
    /\ notified' = on_recording_start    \* lines 152-154, before create_capture
    /\ \E outcome \in {"create_err", "start_err", "started"} :
         \/ /\ outcome = "create_err"
            /\ logged' = "Failed to create audio capture"
            /\ UNCHANGED <<state, audio_capture, elapsed, stateFile, writeFailed,
                           text_result, transcribeCalls, outputLog, stopCalls,
                           samples>>
         \/ /\ outcome = "start_err"
            /\ logged' = "Failed to start audio"
            /\ UNCHANGED <<state, audio_capture, elapsed, stateFile, writeFailed,
                           text_result, transcribeCalls, outputLog, stopCalls,
                           samples>>
         \/ /\ outcome = "started"
            /\ logged' = "Audio capture started successfully"
            /\ audio_capture' = "Some"
            /\ state' = "Recording"
            /\ elapsed' = 0
            /\ update_state("recording")
            /\ text_result' = NoResult
            /\ transcribeCalls' = 0
            /\ outputLog' = <<>>
            /\ stopCalls' = 0
            /\ samples' = NoSamples
    /\ Rearm
    /\ UNCHANGED <<pc, audio, text, ctrl_c, state_file_path, listenerStopped>>
    /\ UNCHANGED on_recording_start
    /\ UNCHANGED <<mode, pvars, fvars>>

\* lines 145-147, state.is_idle() false: nothing happens
PressedIgnored ==
    /\ pc = "select"
    /\ hotkey_rx # <<>>
    /\ Head(hotkey_rx).event = "Pressed"
    /\ ~is_idle(state)
    /\ hotkey_rx' = Tail(hotkey_rx)
    /\ logged' = "none"
    /\ Rearm
    /\ UNCHANGED <<pc, state, audio, text, elapsed, audio_capture, ctrl_c,
                   state_file_path, stateFile, writeFailed, text_result,
                   transcribeCalls, outputLog, stopCalls, samples, listenerStopped>>
    /\ UNCHANGED <<on_recording_start, notified>>
    /\ UNCHANGED <<mode, pvars, fvars>>

\* lines 178-221, state.is_recording(): stop the capture, then either
\* discard the utterance or dispatch the transcription and await it
ReleasedRecording ==
    /\ pc = "select"
    /\ hotkey_rx # <<>>
    /\ Head(hotkey_rx).event = "Released"
    /\ is_recording(state)
    /\ hotkey_rx' = Tail(hotkey_rx)
    /\ audio_capture' = "None"
    /\ elapsed' = 0
    /\ IF audio_capture = "Some"
         THEN /\ stopCalls' = stopCalls + 1
              /\ \/ \* capture.stop() is Err (lines 258-262)
                    /\ logged' = "Recording error"
                    /\ state' = "Idle"
                    /\ update_state("idle")
                    /\ UNCHANGED <<pc, audio, transcribeCalls, samples>>
                 \/ \* capture.stop() is Ok(samples) (lines 194-221)
                    \E n \in SampleCounts :
                       /\ samples' = n
                       /\ IF TooShort(n)
                            THEN /\ logged' = "Recording too short"
                                 /\ state' = "Idle"
                                 /\ update_state("idle")
                                 /\ UNCHANGED <<pc, audio, transcribeCalls>>
                            ELSE /\ logged' = "Transcribing audio"
                                 /\ state' = "Transcribing"
                                 /\ audio' = n
                                 /\ update_state("transcribing")
                                 /\ transcribeCalls' = transcribeCalls + 1
                                 /\ pc' = "transcribe"
         ELSE \* lines 264-267
              /\ logged' = "none"
              /\ state' = "Idle"
              /\ update_state("idle")
              /\ UNCHANGED <<pc, audio, transcribeCalls, stopCalls, samples>>
    /\ Rearm
    /\ UNCHANGED <<text, ctrl_c, state_file_path, text_result, outputLog,
                   listenerStopped>>
    /\ UNCHANGED <<on_recording_start, notified>>
    /\ UNCHANGED <<mode, pvars, fvars>>

\* lines 178-180, state.is_recording() false: nothing happens
ReleasedIgnored ==
    /\ pc = "select"
    /\ hotkey_rx # <<>>
    /\ Head(hotkey_rx).event = "Released"
    /\ ~is_recording(state)
    /\ hotkey_rx' = Tail(hotkey_rx)
    /\ logged' = "none"
    /\ Rearm
    /\ UNCHANGED <<pc, state, audio, text, elapsed, audio_capture, ctrl_c,
                   state_file_path, stateFile, writeFailed, text_result,
                   transcribeCalls, outputLog, stopCalls, samples, listenerStopped>>
    /\ UNCHANGED <<on_recording_start, notified>>
    /\ UNCHANGED <<mode, pvars, fvars>>

\* variant: the text.is_empty() test of line 225 is missing
TranscribeDone_OutputsEmpty ==
    /\ pc = "transcribe"
    /\ \E r \in TranscribeResults :
        /\ text_result' = r
        /\ audio' = 0
        /\ IF r.kind = "Ok"
             THEN \* lines 230-238: Outputting, output_with_fallback awaited
                  /\ logged' = "Transcribed"
                  /\ state' = "Outputting"
                  /\ text' = r.text
                  /\ outputLog' = Append(outputLog, r.text)
                  /\ pc' = "output"
                  /\ UNCHANGED <<stateFile, writeFailed>>
             ELSE /\ logged' = CASE r.kind = "Ok" -> "Transcription was empty"
                                 [] r.kind = "Err" -> "Transcription failed"
                                 [] r.kind = "JoinErr" -> "Transcription task failed"
                  /\ state' = "Idle"
                  /\ update_state("idle")
                  /\ pc' = "select"
                  /\ UNCHANGED <<text, outputLog>>
    /\ Rearm
    /\ UNCHANGED <<elapsed, audio_capture, hotkey_rx, ctrl_c, state_file_path,
                   transcribeCalls, stopCalls, samples, listenerStopped>>
    /\ UNCHANGED <<on_recording_start, notified>>
    /\ UNCHANGED <<mode, pvars, fvars>>

\* variant: a failed task is propagated with `?` instead of being matched
TranscribeDone_Propagates ==
    /\ pc = "transcribe"
    /\ \E r \in TranscribeResults :
        /\ text_result' = r
        /\ audio' = 0
        /\ IF r.kind = "Ok" /\ r.text # ""
             THEN \* lines 230-238: Outputting, output_with_fallback awaited
                  /\ logged' = "Transcribed"
                  /\ state' = "Outputting"
                  /\ text' = r.text
                  /\ outputLog' = Append(outputLog, r.text)
                  /\ pc' = "output"
                  /\ UNCHANGED <<stateFile, writeFailed>>
             ELSE /\ logged' = CASE r.kind = "Ok" -> "Transcription was empty"
                                 [] r.kind = "Err" -> "Transcription failed"
                                 [] r.kind = "JoinErr" -> "Transcription task failed"
                  /\ IF r.kind = "JoinErr"
                       THEN /\ pc' = "returned_err"
                            /\ UNCHANGED <<state, stateFile, writeFailed>>
                       ELSE /\ state' = "Idle"
                            /\ update_state("idle")
                            /\ pc' = "select"
                  /\ UNCHANGED <<text, outputLog>>
    /\ Rearm
    /\ UNCHANGED <<elapsed, audio_capture, hotkey_rx, ctrl_c, state_file_path,
                   transcribeCalls, stopCalls, samples, listenerStopped>>
    /\ UNCHANGED <<on_recording_start, notified>>
    /\ UNCHANGED <<mode, pvars, fvars>>

\* lines 221-256: the awaited task completes with text_result
TranscribeDone ==
    /\ pc = "transcribe"
    /\ \E r \in TranscribeResults :
        /\ text_result' = r
        /\ audio' = 0
        /\ IF r.kind = "Ok" /\ r.text # ""
             THEN \* lines 230-238: Outputting, output_with_fallback awaited
                  /\ logged' = "Transcribed"
                  /\ state' = "Outputting"
                  /\ text' = r.text
                  /\ outputLog' = Append(outputLog, r.text)
                  /\ pc' = "output"
                  /\ UNCHANGED <<stateFile, writeFailed>>
             ELSE /\ logged' = CASE r.kind = "Ok" -> "Transcription was empty"
                                 [] r.kind = "Err" -> "Transcription failed"
                                 [] r.kind = "JoinErr" -> "Transcription task failed"
                  /\ state' = "Idle"
                  /\ update_state("idle")
                  /\ pc' = "select"
                  /\ UNCHANGED <<text, outputLog>>
    /\ Rearm
    /\ UNCHANGED <<elapsed, audio_capture, hotkey_rx, ctrl_c, state_file_path,
                   transcribeCalls, stopCalls, samples, listenerStopped>>
    /\ UNCHANGED <<on_recording_start, notified>>
    /\ UNCHANGED <<mode, pvars, fvars>>

\* lines 235-243: output delivery returns, Ok or Err
OutputDone ==
    /\ pc = "output"
    /\ logged' \in {"Output delivered", "Output failed"}
    /\ state' = "Idle"
    /\ text' = ""
    /\ update_state("idle")
    /\ pc' = "select"
    /\ Rearm
    /\ UNCHANGED <<audio, elapsed, audio_capture, hotkey_rx, ctrl_c,
                   state_file_path, text_result, transcribeCalls, outputLog,
                   stopCalls, samples, listenerStopped>>
    /\ UNCHANGED <<on_recording_start, notified>>
    /\ UNCHANGED <<mode, pvars, fvars>>

\* variant: the timeout path resets the state without stopping the capture
TimeoutCheck_NoStop ==
    /\ pc = "select"
    /\ is_recording(state)
    /\ sleepLeft = 0
    /\ IF TimedOut(elapsed)
         THEN /\ logged' = "Recording timeout"
              /\ UNCHANGED <<audio_capture, stopCalls>>
              /\ state' = "Idle"
              /\ elapsed' = 0
              /\ update_state("idle")
         ELSE /\ logged' = "none"
              /\ UNCHANGED <<audio_capture, stopCalls, state, elapsed, stateFile,
                             writeFailed>>
    /\ Rearm
    /\ UNCHANGED <<pc, audio, text, hotkey_rx, ctrl_c, state_file_path,
                   text_result, transcribeCalls, outputLog, samples, listenerStopped>>
    /\ UNCHANGED <<on_recording_start, notified>>
    /\ UNCHANGED <<mode, pvars, fvars>>

\* lines 274-290: the sleep of this select! completed while Recording
TimeoutCheck ==
    /\ pc = "select"
    /\ is_recording(state)
    /\ sleepLeft = 0
    /\ IF TimedOut(elapsed)
         THEN /\ logged' = "Recording timeout"
              /\ audio_capture' = "None"
              /\ stopCalls' = IF audio_capture = "Some" THEN stopCalls + 1 ELSE stopCalls
              /\ state' = "Idle"
              /\ elapsed' = 0
              /\ update_state("idle")
         ELSE /\ logged' = "none"
              /\ UNCHANGED <<audio_capture, stopCalls, state, elapsed, stateFile,
                             writeFailed>>
    /\ Rearm
    /\ UNCHANGED <<pc, audio, text, hotkey_rx, ctrl_c, state_file_path,
                   text_result, transcribeCalls, outputLog, samples, listenerStopped>>
    /\ UNCHANGED <<on_recording_start, notified>>
    /\ UNCHANGED <<mode, pvars, fvars>>

\* lines 293-296: the ctrl_c arm, break
Shutdown ==
    /\ pc = "select"
    /\ ctrl_c = "pending"
    /\ pc' = "cleanup"
    /\ ctrl_c' = "none"
    /\ logged' = "Received interrupt signal"
    /\ UNCHANGED <<state, audio, text, elapsed, sleepLeft, audio_capture,
                   hotkey_rx, state_file_path, stateFile, writeFailed,
                   text_result, transcribeCalls, outputLog, stopCalls, samples,
                   listenerStopped>>
    /\ UNCHANGED <<on_recording_start, notified>>
    /\ UNCHANGED <<mode, pvars, fvars>>

\* cleanup_state_file (lines 52-58)
cleanup_state_file(file, removeOk) ==
    IF file # Absent /\ removeOk THEN Absent ELSE file

\* lines 300-310: hotkey_listener.stop().await? and the state file removal
Cleanup ==
    /\ pc = "cleanup"
    /\ \/ \* stop() is Err: `?` returns it
          /\ listenerStopped' = "err"
          /\ pc' = "returned_err"
          /\ logged' = "none"
          /\ UNCHANGED stateFile
       \/ /\ listenerStopped' = "ok"
          /\ pc' = "returned_ok"
          /\ \E removeOk \in BOOLEAN :
                /\ stateFile' = IF state_file_path
                                  THEN cleanup_state_file(stateFile, removeOk)
                                  ELSE stateFile
                /\ logged' = IF state_file_path /\ stateFile # Absent /\ ~removeOk
                               THEN "Failed to remove state file"
                               ELSE "Daemon stopped"
    /\ UNCHANGED <<state, audio, text, elapsed, sleepLeft, audio_capture,
                   hotkey_rx, ctrl_c, state_file_path, writeFailed, text_result,
                   transcribeCalls, outputLog, stopCalls, samples>>
    /\ UNCHANGED <<on_recording_start, notified>>
    /\ UNCHANGED <<mode, pvars, fvars>>

Next ==
    \/ Startup
    \/ Deliver
    \/ Signal
    \/ Tick
    \/ PressedIdle
    \/ PressedIgnored
    \/ ReleasedRecording
    \/ ReleasedIgnored
    \/ TranscribeDone
    \/ OutputDone
    \/ TimeoutCheck
    \/ Shutdown
    \/ Cleanup

Spec == Init /\ [][Next]_vars

\* scheduling of the loop: a ready arm of select! is eventually taken (the
\* arm is picked at random among the ready ones), time advances, awaited
\* work completes
Fairness ==
    /\ WF_vars(Tick)
    /\ SF_vars(TimeoutCheck)
    /\ WF_vars(PressedIdle \/ PressedIgnored \/ ReleasedRecording \/ ReleasedIgnored)
    /\ WF_vars(TranscribeDone)
    /\ WF_vars(OutputDone)
    /\ WF_vars(Cleanup)

FairSpec == Init /\ [][Next]_vars /\ Fairness

\* ------------------------------------------- two runs on the same stimuli
\* In mode "pair" the loop runs as above, and any step of it can be replayed
\* from the state it started in with the state-file configuration and the
\* file's content replaced by any other.  fnOp is the phase ("none",
\* "marked", "rewound"), fnIn the state noted before the step, fnOut the
\* step's effect that the replay has to repeat.

\* the session state and the invocations of capture, transcriber and output:
\* everything of the loop except the state file and the log
Core ==
    [pc |-> pc, state |-> state, audio |-> audio, text |-> text,
     elapsed |-> elapsed, sleepLeft |-> sleepLeft,
     audio_capture |-> audio_capture, hotkey_rx |-> hotkey_rx,
     ctrl_c |-> ctrl_c, text_result |-> text_result,
     transcribeCalls |-> transcribeCalls, outputLog |-> outputLog,
     stopCalls |-> stopCalls, samples |-> samples,
     listenerStopped |-> listenerStopped,
     on_recording_start |-> on_recording_start, notified |-> notified]

\* the state-file side of the loop
FileSide ==
    [state_file_path |-> state_file_path, stateFile |-> stateFile,
     writeFailed |-> writeFailed]

\* state_file_path is None or Some(path), and the file at the path is
\* missing or holds anything a run may have left
FileConfigs ==
    {[state_file_path |-> FALSE, stateFile |-> Absent]}
        \cup {[state_file_path |-> TRUE, stateFile |-> c] :
                 c \in {Absent, Truncated, "idle", "recording", "transcribing"}}

PairInit ==
    /\ DStart
    /\ mode = "pair"
    /\ PIdle
    /\ FIdle

\* the state before a step is noted
Mark ==
    /\ mode = "pair"
    /\ fnOp = "none"
    /\ fnOp' = "marked"
    /\ fnIn' = [core |-> Core, file |-> FileSide, logged |-> logged]
    /\ UNCHANGED <<dvars, mode, pvars, fnOut>>

\* the noted state is still the current one
Unstepped ==
    /\ fnOp = "marked"
    /\ fnIn = [core |-> Core, file |-> FileSide, logged |-> logged]

\* the loop goes on from where the step led
Unmark ==
    /\ mode = "pair"
    /\ fnOp = "marked"
    /\ ~Unstepped
    /\ fnOp' = "none"
    /\ fnIn' = <<>>
    /\ UNCHANGED <<dvars, mode, pvars, fnOut>>

\* back to the noted state, with another state-file configuration; what
\* the step did to the session is kept in fnOut
Rewind ==
    /\ mode = "pair"
    /\ fnOp = "marked"
    /\ ~Unstepped
    /\ \E f \in FileConfigs :
          /\ state_file_path' = f.state_file_path
          /\ stateFile' = f.stateFile
    /\ writeFailed' = FALSE
    /\ pc' = fnIn.core.pc
    /\ state' = fnIn.core.state
    /\ audio' = fnIn.core.audio
    /\ text' = fnIn.core.text
    /\ elapsed' = fnIn.core.elapsed
    /\ sleepLeft' = fnIn.core.sleepLeft
    /\ audio_capture' = fnIn.core.audio_capture
    /\ hotkey_rx' = fnIn.core.hotkey_rx
    /\ ctrl_c' = fnIn.core.ctrl_c
    /\ text_result' = fnIn.core.text_result
    /\ transcribeCalls' = fnIn.core.transcribeCalls
    /\ outputLog' = fnIn.core.outputLog
    /\ stopCalls' = fnIn.core.stopCalls
    /\ samples' = fnIn.core.samples
    /\ listenerStopped' = fnIn.core.listenerStopped
    /\ on_recording_start' = fnIn.core.on_recording_start
    /\ notified' = fnIn.core.notified
    /\ logged' = fnIn.logged
    /\ fnOp' = "rewound"
    /\ fnIn' = <<>>
    /\ fnOut' = Core
    /\ UNCHANGED <<mode, pvars>>

\* one step of the loop from a noted state
PairStep ==
    /\ mode = "pair"
    /\ Unstepped
    /\ Next

PairNext ==
    \/ Mark
    \/ PairStep
    \/ Unmark
    \/ Rewind

PairSpec == PairInit /\ [][PairNext]_vars

\* ------------------------------------------------------- pure functions
\* the daemon is not running
DIdle ==
    /\ pc = "start"
    /\ state = "Idle"
    /\ audio = 0
    /\ text = ""
    /\ elapsed = 0
    /\ sleepLeft = SleepTicks
    /\ audio_capture = "None"
    /\ hotkey_rx = <<>>
    /\ ctrl_c = "none"
    /\ state_file_path = FALSE
    /\ stateFile = Absent
    /\ writeFailed = FALSE
    /\ logged = "none"
    /\ text_result = NoResult
    /\ transcribeCalls = 0
    /\ outputLog = <<>>
    /\ stopCalls = 0
    /\ samples = NoSamples
    /\ listenerStopped = "no"
    /\ on_recording_start = FALSE
    /\ notified = FALSE

\* strings the inputs are built from
FnStrings == {<<>>, <<"hello world">>, <<"model not found">>, <<"a", NL, QT, BS, "n">>}

OptStrings == {None} \cup {Some(x) : x \in FnStrings}

\* every value of the parent's WorkerResponse over these strings
ParsedResponses ==
    {[valid |-> TRUE, ok |-> b, text |-> t, error |-> e] :
        b \in BOOLEAN, t \in OptStrings, e \in OptStrings}

\* lines a worker's output may consist of: responses, other JSON, no JSON
FnLines ==
    {to_string(success(<<"hello world">>)),
     to_string(error(<<"model not found">>)),
     to_string(success(<<"a", NL, QT, BS, "n">>)),
     <<"{", K_ok, "true", "}">>,
     <<"{", K_ok, "false", ",", K_text, QT, "t", QT, ",", K_error, QT, "m", QT, "}">>,
     <<"{", K_text, QT, "t", QT, "}">>,
     <<"[worker]", "loading">>,
     <<>>}

RECURSIVE Join(_)
Join(ls) == IF ls = <<>> THEN <<>> ELSE Head(ls) \o <<NL>> \o Join(Tail(ls))

\* outputs of up to MaxLines lines, the last one with or without newline
FnOutputs ==
    LET seqs == UNION {[1..k -> FnLines] : k \in 0..MaxLines}
    IN {Join(ls) : ls \in seqs}
         \cup {SubSeq(Join(ls), 1, Len(Join(ls)) - 1) : ls \in seqs \ {<<>>}}

\* f32 values, as bytes: 0.0, 1.0, -0.0, a NaN, 1.17e-38
Words == {<<0, 0, 0, 0>>, <<63, 128, 0, 0>>, <<128, 0, 0, 0>>, <<127, 192, 0, 1>>,
          <<0, 128, 1, 2>>}

\* buffers: short ones of every length, and long ones up to the ceiling
CodecLens == (1..MaxSamples) \cup {255, 256, 65535, 65536, 9600000}

CodecBufs ==
    {[len |-> n, pat |-> p] :
        n \in CodecLens, p \in UNION {[1..k -> Words] : k \in 1..2}}

\* the samples compared: all of a short buffer, both ends of a long one
CheckedIdx(n) == IF n <= MaxSamples + 1 THEN 0..(n - 1) ELSE {0, 1, n - 2, n - 1}

FnInit ==
    /\ mode = "fn"
    /\ DIdle
    /\ PIdle
    /\ FIdle

\* subprocess.rs:198-207 on a parsed response
ApplyResolve ==
    /\ mode = "fn"
    /\ fnOp = "none"
    /\ \E r \in ParsedResponses :
          /\ fnIn' = r
          /\ fnOut' = resolve(r)
    /\ fnOp' = "resolve"
    /\ UNCHANGED <<dvars, mode, pvars>>

\* subprocess.rs:132-140 on the whole output of a worker
ApplyReadResponse ==
    /\ mode = "fn"
    /\ fnOp = "none"
    /\ \E out \in FnOutputs :
          /\ fnIn' = out
          /\ fnOut' = read_worker_response(out)
    /\ fnOp' = "read_worker_response"
    /\ UNCHANGED <<dvars, mode, pvars>>

\* subprocess.rs:100-114 followed by worker.rs:50-58, 77-85
ApplyCodec ==
    /\ mode = "fn"
    /\ fnOp = "none"
    /\ \E b \in CodecBufs, e \in {"LE", "BE"} :
          /\ fnIn' = [buf |-> b, endian |-> e]
          /\ fnOut' = [bytes |-> PayloadLen(b),
                       count |-> WorkerCount(b, e),
                       decoded |-> [i \in CheckedIdx(b.len) |-> WorkerSample(b, e, i)]]
    /\ fnOp' = "codec"
    /\ UNCHANGED <<dvars, mode, pvars>>

\* lengths samples.len() of non-empty buffers, as hi * 2^32 + lo: around
\* the worker's ceiling and around the range of a u32
WideLens ==
    {[hi |-> h, lo |-> n] : h \in 0..MaxHigh, n \in {0, 1, 2, 9600000, 9600001}}
        \ {[hi |-> 0, lo |-> 0]}

\* subprocess.rs:100-114 on a buffer of the given length: the count written,
\* the number of samples whose bytes follow it; then worker.rs:58-74 on
\* that count
ApplyCount ==
    /\ mode = "fn"
    /\ fnOp = "none"
    /\ \E l \in WideLens :
          /\ fnIn' = [len |-> l]
          /\ LET hdr == to_le_bytes(WideAsU32(l)) IN
                fnOut' = [header |-> hdr,
                          body |-> l,
                          sample_count |-> from_le_bytes(hdr),
                          verdict |-> validate(from_le_bytes(hdr))]
    /\ fnOp' = "count"
    /\ UNCHANGED <<dvars, mode, pvars>>

FnNext ==
    \/ ApplyResolve
    \/ ApplyReadResponse
    \/ ApplyCodec
    \/ ApplyCount

FnSpec == FnInit /\ [][FnNext]_vars

\* ------------------------------------------------ transcription protocol
\* SubprocessTranscriber::transcribe and the worker it spawns run as two
\* processes joined by three pipes.  In mode "parent" both run; in mode
\* "standalone" run_worker runs alone on an input that some other writer
\* has left and closed.

\* lengths of the buffers given to transcribe: empty, short, longer than
\* the pipe, one sample above the worker's ceiling
BufLens == {0, 1, 2, 40000, 9600001}

OnePat == <<<<63, 128, 0, 0>>>>

\* texts the inference engine returns
EngineTexts == {<<>>, <<"hello world">>, <<"a", NL, QT, BS, "n">>}

\* Display of the TranscribeError values of the engine (error.rs): each
\* variant's text starts with a fixed prefix
EngineErrors ==
    {<<"Model not found: ", "ggml-base.en.bin">>,
     <<"Inference failed: ", "whisper_full", NL, "code -1">>}

\* Display of the io::Error values of a pipe
BrokenPipe == "Broken pipe (os error 32)"

UnexpectedEof == "failed to fill whole buffer"

\* sample counts and input lengths a worker run alone is given
StandaloneCounts == {0, 1, 2, 9600000, 9600001, 2147483647}

StandaloneHeaders ==
    {SubSeq(to_le_bytes(c), 1, k) : c \in StandaloneCounts, k \in 0..4}

StandaloneBodies == {0, 4, 7, 8, 38400000}

Min(a, b) == IF a < b THEN a ELSE b

\* bytes the stdin pipe can still take
Space(p) == PipeCap - Len(p.hdr) - p.body

\* no call of transcribe has been made; or run_worker starts on its input
ProtoInit ==
    /\ DIdle
    /\ FIdle
    /\ \/ /\ mode = "parent"
          /\ PIdle
       \/ /\ mode = "standalone"
          /\ ppc = "idle"
          /\ wpc = "read_count"
          /\ buf = [len |-> 0, pat |-> <<>>]
          /\ calls = 0
          /\ spawnCalls = 0
          /\ pid = 1
          /\ handle = 0
          /\ toWrite = 0
          /\ written = 0
          /\ \E h \in StandaloneHeaders, n \in StandaloneBodies :
                stdinPipe = [hdr |-> h, body |-> IF Len(h) = 4 THEN n ELSE 0,
                             open |-> FALSE]
          /\ wNeed = 0
          /\ wRead = 0
          /\ count_buf = <<>>
          /\ sample_count = 0
          /\ wAlloc = 0
          /\ stdoutPipe = <<>>
          /\ output = <<>>
          /\ stderrPipe = 0
          /\ engineLog \in 0..1
          /\ wResp = NoResp
          /\ respWrites = 0
          /\ errWrites = 0
          /\ engineLoaded = FALSE
          /\ wResult = NoReturn
          /\ exitStatus = "running"
          /\ response = Invalid
          /\ reaped = FALSE
          /\ stderrRead = FALSE
          /\ result = NoReturn

\* the worker's variables and the pipes when no worker exists
NoWorker ==
    /\ wpc' = "none"
    /\ wNeed' = 0
    /\ wRead' = 0
    /\ count_buf' = <<>>
    /\ sample_count' = 0
    /\ wAlloc' = 0
    /\ engineLog' = 0
    /\ wResp' = NoResp
    /\ respWrites' = 0
    /\ errWrites' = 0
    /\ engineLoaded' = FALSE
    /\ wResult' = NoReturn
    /\ exitStatus' = "none"
    /\ stdinPipe' = NoPipe
    /\ stdoutPipe' = <<>>
    /\ stderrPipe' = 0


\* variant: the empty buffer is not rejected
Call_NoEmptyCheck ==
    /\ mode = "parent"
    /\ ppc \in {"idle", "returned"}
    /\ calls < MaxCalls
    /\ calls' = calls + 1
    /\ \E n \in BufLens : buf' = [len |-> n, pat |-> OnePat]
    /\ ppc' = "spawn"
    /\ result' = NoReturn
    /\ spawnCalls' = 0
    /\ handle' = 0
    /\ toWrite' = 0
    /\ written' = 0
    /\ output' = <<>>
    /\ response' = Invalid
    /\ reaped' = FALSE
    /\ stderrRead' = FALSE
    /\ NoWorker
    /\ UNCHANGED <<dvars, mode, fvars, pid>>

\* subprocess.rs:145-148: transcribe is called; an empty buffer is an
\* error at once.  The processes of earlier calls have exited.
Call ==
    /\ mode = "parent"
    /\ ppc \in {"idle", "returned"}
    /\ calls < MaxCalls
    /\ calls' = calls + 1
    /\ \E n \in BufLens :
          /\ buf' = [len |-> n, pat |-> OnePat]
          /\ IF n = 0
               THEN /\ ppc' = "returned"
                    /\ result' = Err("AudioFormat", <<"Empty audio buffer">>)
               ELSE /\ ppc' = "spawn"
                    /\ result' = NoReturn
    /\ spawnCalls' = 0
    /\ handle' = 0
    /\ toWrite' = 0
    /\ written' = 0
    /\ output' = <<>>
    /\ response' = Invalid
    /\ reaped' = FALSE
    /\ stderrRead' = FALSE
    /\ NoWorker
    /\ UNCHANGED <<dvars, mode, fvars, pid>>

\* subprocess.rs:159-168, spawn_worker (65-92): a new process with three
\* new pipes, or InitFailed.  The engine's log volume is the process's own.
Spawn ==
    /\ mode = "parent"
    /\ ppc = "spawn"
    /\ spawnCalls' = spawnCalls + 1
    /\ \/ /\ pid' = pid + 1
          /\ handle' = pid + 1
          /\ wpc' = "read_count"
          /\ exitStatus' = "running"
          /\ stdinPipe' = [hdr |-> <<>>, body |-> 0, open |-> TRUE]
          /\ engineLog' \in 0..StderrCap
          /\ ppc' = "write_count"
          /\ toWrite' = 4
          /\ UNCHANGED result
       \/ /\ ppc' = "returned"
          /\ result' = Err("InitFailed", <<"Failed to spawn transcribe-worker: ", "No such file or directory (os error 2)">>)
          /\ UNCHANGED <<pid, handle, wpc, exitStatus, stdinPipe, engineLog, toWrite>>
    /\ UNCHANGED <<dvars, mode, fvars, buf, calls, written, output, response,
                   reaped, stderrRead, wNeed, wRead, count_buf, sample_count,
                   wAlloc, wResp, respWrites, errWrites, engineLoaded, wResult,
                   stdoutPipe, stderrPipe>>

\* subprocess.rs:100-103: the four bytes of the count go into the empty
\* pipe in one write; the worker is waiting for them
WriteCount ==
    /\ mode = "parent"
    /\ ppc = "write_count"
    /\ Space(stdinPipe) >= toWrite
    /\ stdinPipe' = [stdinPipe EXCEPT !.hdr = to_le_bytes(LenAsU32(buf.len))]
    /\ written' = written + toWrite
    /\ toWrite' = buf.len * 4
    /\ ppc' = "write_samples"
    /\ UNCHANGED <<dvars, mode, fvars, buf, calls, spawnCalls, pid, handle,
                   output, response, reaped, stderrRead, result, wside,
                   stdoutPipe, stderrPipe>>

\* subprocess.rs:106-114: write_all of the samples' bytes, as much at a
\* time as the pipe takes while the worker holds its end
WriteSamples ==
    /\ mode = "parent"
    /\ ppc = "write_samples"
    /\ toWrite > 0
    /\ wpc # "exited"
    /\ Space(stdinPipe) > 0
    /\ LET n == Min(toWrite, Space(stdinPipe)) IN
          /\ stdinPipe' = [stdinPipe EXCEPT !.body = @ + n]
          /\ written' = written + n
          /\ toWrite' = toWrite - n
    /\ UNCHANGED <<dvars, mode, fvars, ppc, buf, calls, spawnCalls, pid, handle,
                   output, response, reaped, stderrRead, result, wside,
                   stdoutPipe, stderrPipe>>

\* subprocess.rs:112-114, 171: the worker has exited, the write fails with
\* EPIPE and `?` returns the error; child and its streams are dropped
WriteSamplesFailed ==
    /\ mode = "parent"
    /\ ppc = "write_samples"
    /\ toWrite > 0
    /\ wpc = "exited"
    /\ result' = Err("InferenceFailed", <<"Failed to write audio samples: ", BrokenPipe>>)
    /\ ppc' = "returned"
    /\ stdinPipe' = [stdinPipe EXCEPT !.open = FALSE]
    /\ UNCHANGED <<dvars, mode, fvars, buf, calls, spawnCalls, pid, handle,
                   toWrite, written, output, response, reaped, stderrRead,
                   wside, stdoutPipe, stderrPipe>>

\* subprocess.rs:116-120, 172: flush, then drop(stdin) closes the pipe
CloseStdin ==
    /\ mode = "parent"
    /\ ppc = "write_samples"
    /\ toWrite = 0
    /\ stdinPipe' = [stdinPipe EXCEPT !.open = FALSE]
    /\ ppc' = "read"
    /\ UNCHANGED <<dvars, mode, fvars, buf, calls, spawnCalls, pid, handle,
                   toWrite, written, output, response, reaped, stderrRead,
                   result, wside, stdoutPipe, stderrPipe>>

\* subprocess.rs:127-130: read_to_string takes what the pipe holds
ReadOutput ==
    /\ mode = "parent"
    /\ ppc = "read"
    /\ stdoutPipe # <<>>
    /\ output' = output \o stdoutPipe
    /\ stdoutPipe' = <<>>
    /\ UNCHANGED <<dvars, mode, fvars, ppc, buf, calls, spawnCalls, pid, handle,
                   toWrite, written, response, reaped, stderrRead, result,
                   wside, stdinPipe, stderrPipe>>

\* subprocess.rs:128-140, 175: end of file once the worker has exited; the
\* last line is parsed and a parse error is returned by `?`
ReadEof ==
    /\ mode = "parent"
    /\ ppc = "read"
    /\ stdoutPipe = <<>>
    /\ wpc = "exited"
    /\ LET r == read_worker_response(output) IN
          /\ response' = r
          /\ IF r.valid
               THEN /\ ppc' = "wait"
                    /\ UNCHANGED result
               ELSE /\ ppc' = "returned"
                    /\ result' = Err("InferenceFailed",
                                     <<"Failed to parse worker response: ">> \o output)
    /\ UNCHANGED <<dvars, mode, fvars, buf, calls, spawnCalls, pid, handle,
                   toWrite, written, output, reaped, stderrRead, wside, pipes>>

\* subprocess.rs:178-182: child.wait() and the test of the status
Wait ==
    /\ mode = "parent"
    /\ ppc = "wait"
    /\ wpc = "exited"
    /\ reaped' = TRUE
    /\ ppc' = IF exitStatus # "exit0" THEN "stderr" ELSE "resolve"
    /\ UNCHANGED <<dvars, mode, fvars, buf, calls, spawnCalls, pid, handle,
                   toWrite, written, output, response, stderrRead, result,
                   wside, pipes>>

\* subprocess.rs:184-190: the error stream is read to its end and logged
ReadStderr ==
    /\ mode = "parent"
    /\ ppc = "stderr"
    /\ stderrRead' = TRUE
    /\ stderrPipe' = 0
    /\ ppc' = "resolve"
    /\ UNCHANGED <<dvars, mode, fvars, buf, calls, spawnCalls, pid, handle,
                   toWrite, written, output, response, reaped, result, wside,
                   stdinPipe, stdoutPipe>>


\* variant: a non-zero exit status is an error
Resolve_StatusChecked ==
    /\ mode = "parent"
    /\ ppc = "resolve"
    /\ result' = IF exitStatus # "exit0"
                   THEN Err("InferenceFailed", <<"Worker exited with an error">>)
                   ELSE resolve(response)
    /\ ppc' = "returned"
    /\ UNCHANGED <<dvars, mode, fvars, buf, calls, spawnCalls, pid, handle,
                   toWrite, written, output, response, reaped, stderrRead,
                   wside, pipes>>

\* subprocess.rs:198-207: the result is made from the response
Resolve ==
    /\ mode = "parent"
    /\ ppc = "resolve"
    /\ result' = resolve(response)
    /\ ppc' = "returned"
    /\ UNCHANGED <<dvars, mode, fvars, buf, calls, spawnCalls, pid, handle,
                   toWrite, written, output, response, reaped, stderrRead,
                   wside, pipes>>

\* ---- the worker (worker.rs)

\* write_response (worker.rs:132-140): one line on stdout; a line is far
\* shorter than the pipe, which the parent empties only after this
write_response(r) ==
    /\ wResp' = r
    /\ stdoutPipe' = stdoutPipe \o writeln(to_string(r))
    /\ respWrites' = respWrites + 1

\* eprintln!: one unit on stderr, waiting while the pipe is full; a worker
\* run alone writes to a terminal or a file
eprintln ==
    /\ mode = "standalone" \/ stderrPipe < StderrCap
    /\ stderrPipe' = stderrPipe + 1
    /\ errWrites' = errWrites + 1


\* worker.rs:50-83: the count is read and tested, the buffer allocated
WReadCount ==
    /\ mode \in {"parent", "standalone"}
    /\ wpc = "read_count"
    /\ Len(stdinPipe.hdr) = 4
    /\ count_buf' = stdinPipe.hdr
    /\ stdinPipe' = [stdinPipe EXCEPT !.hdr = <<>>]
    /\ wRead' = wRead + 4
    /\ LET c == from_le_bytes(stdinPipe.hdr) IN
          /\ sample_count' = c
          /\ CASE validate(c) = "too_large" ->
                    /\ write_response(error(<<"Sample count too large: ", ToString(c),
                                              " (max ", ToString(MAX_SAMPLES), ")">>))
                    /\ wpc' = "exit"
                    /\ UNCHANGED <<wAlloc, wNeed>>
               [] validate(c) = "empty" ->
                    /\ write_response(error(<<"Empty audio buffer">>))
                    /\ wpc' = "exit"
                    /\ UNCHANGED <<wAlloc, wNeed>>
               [] validate(c) = "ok" ->
                    /\ wAlloc' = c
                    /\ wNeed' = c * 4
                    /\ wpc' = "read_samples"
                    /\ UNCHANGED <<wResp, stdoutPipe, respWrites>>
    /\ UNCHANGED <<dvars, mode, fvars, pside, engineLog, errWrites, engineLoaded,
                   wResult, exitStatus, stderrPipe>>


\* variant: the read error is returned with `?`
WReadCountFailed_Propagated ==
    /\ mode \in {"parent", "standalone"}
    /\ wpc = "read_count"
    /\ Len(stdinPipe.hdr) < 4
    /\ ~stdinPipe.open
    /\ wRead' = wRead + Len(stdinPipe.hdr)
    /\ stdinPipe' = [stdinPipe EXCEPT !.hdr = <<>>]
    /\ wpc' = "exited"
    /\ exitStatus' = "exit1"
    /\ UNCHANGED <<dvars, mode, fvars, pside, wNeed, count_buf, sample_count,
                   wAlloc, engineLog, errWrites, engineLoaded, wResult,
                   wResp, stdoutPipe, respWrites, stderrPipe>>

\* worker.rs:51-57: the input ends before four bytes
WReadCountFailed ==
    /\ mode \in {"parent", "standalone"}
    /\ wpc = "read_count"
    /\ Len(stdinPipe.hdr) < 4
    /\ ~stdinPipe.open
    /\ wRead' = wRead + Len(stdinPipe.hdr)
    /\ stdinPipe' = [stdinPipe EXCEPT !.hdr = <<>>]
    /\ write_response(error(<<"Failed to read sample count: ", UnexpectedEof>>))
    /\ wpc' = "exit"
    /\ UNCHANGED <<dvars, mode, fvars, pside, wNeed, count_buf, sample_count,
                   wAlloc, engineLog, errWrites, engineLoaded, wResult,
                   exitStatus, stderrPipe>>

\* worker.rs:85: read_exact takes what the pipe holds, up to what it needs
WReadSamples ==
    /\ mode \in {"parent", "standalone"}
    /\ wpc = "read_samples"
    /\ stdinPipe.body > 0
    /\ LET n == Min(wNeed, stdinPipe.body) IN
          /\ stdinPipe' = [stdinPipe EXCEPT !.body = @ - n]
          /\ wRead' = wRead + n
          /\ wNeed' = wNeed - n
          /\ wpc' = IF wNeed = n THEN "log_received" ELSE "read_samples"
    /\ UNCHANGED <<dvars, mode, fvars, pside, count_buf, sample_count, wAlloc,
                   engineLog, wResp, respWrites, errWrites, engineLoaded,
                   wResult, exitStatus, stdoutPipe, stderrPipe>>

\* worker.rs:85-91: the input ends before the samples are complete
WReadSamplesFailed ==
    /\ mode \in {"parent", "standalone"}
    /\ wpc = "read_samples"
    /\ stdinPipe.body = 0
    /\ ~stdinPipe.open
    /\ write_response(error(<<"Failed to read audio samples: ", UnexpectedEof>>))
    /\ wpc' = "exit"
    /\ UNCHANGED <<dvars, mode, fvars, pside, wNeed, wRead, count_buf,
                   sample_count, wAlloc, engineLog, errWrites, engineLoaded,
                   wResult, exitStatus, stdinPipe, stderrPipe>>

\* worker.rs:94-98
WLogReceived ==
    /\ mode \in {"parent", "standalone"}
    /\ wpc = "log_received"
    /\ eprintln
    /\ wpc' = "log_loading"
    /\ UNCHANGED <<dvars, mode, fvars, pside, wNeed, wRead, count_buf,
                   sample_count, wAlloc, engineLog, wResp, respWrites,
                   engineLoaded, wResult, exitStatus, stdinPipe, stdoutPipe>>

\* worker.rs:101-102: the line is printed and WhisperTranscriber::new called
WLogLoading ==
    /\ mode \in {"parent", "standalone"}
    /\ wpc = "log_loading"
    /\ eprintln
    /\ engineLoaded' = TRUE
    /\ wpc' = "load"
    /\ UNCHANGED <<dvars, mode, fvars, pside, wNeed, wRead, count_buf,
                   sample_count, wAlloc, engineLog, wResp, respWrites,
                   wResult, exitStatus, stdinPipe, stdoutPipe>>

\* worker.rs:102: inside WhisperTranscriber::new the native engine prints
\* its own log on the process's stderr, the pipe the eprintln! lines go
\* to; how much it prints is the engine's matter, an input here
WEngineLog ==
    /\ mode \in {"parent", "standalone"}
    /\ wpc = "load"
    /\ engineLog > 0
    /\ mode = "standalone" \/ stderrPipe < StderrCap
    /\ stderrPipe' = stderrPipe + 1
    /\ engineLog' = engineLog - 1
    /\ UNCHANGED <<dvars, mode, fvars, pside, wpc, wNeed, wRead, count_buf,
                   sample_count, wAlloc, wResp, respWrites, errWrites,
                   engineLoaded, wResult, exitStatus, stdinPipe, stdoutPipe>>

\* worker.rs:102-111: new returns the transcriber or an error
WLoadModel ==
    /\ mode \in {"parent", "standalone"}
    /\ wpc = "load"
    /\ engineLog = 0
    /\ \/ /\ wpc' = "log_starting"
          /\ UNCHANGED <<wResp, stdoutPipe, respWrites>>
       \/ \E e \in EngineErrors :
             /\ write_response(error(<<"Failed to load model: ">> \o e))
             /\ wpc' = "exit"
    /\ UNCHANGED <<dvars, mode, fvars, pside, wNeed, wRead, count_buf,
                   sample_count, wAlloc, engineLog, errWrites, engineLoaded,
                   wResult, exitStatus, stdinPipe, stderrPipe>>

\* worker.rs:114
WLogStarting ==
    /\ mode \in {"parent", "standalone"}
    /\ wpc = "log_starting"
    /\ eprintln
    /\ wpc' = "transcribe"
    /\ UNCHANGED <<dvars, mode, fvars, pside, wNeed, wRead, count_buf,
                   sample_count, wAlloc, engineLog, wResp, respWrites,
                   engineLoaded, wResult, exitStatus, stdinPipe, stdoutPipe>>

\* worker.rs:115: transcriber.transcribe(&samples)
WTranscribe ==
    /\ mode \in {"parent", "standalone"}
    /\ wpc = "transcribe"
    /\ wResult' \in {Ok(t) : t \in EngineTexts} \cup {Err("", e) : e \in EngineErrors}
    /\ wpc' = "log_result"
    /\ UNCHANGED <<dvars, mode, fvars, pside, wNeed, wRead, count_buf,
                   sample_count, wAlloc, engineLog, wResp, respWrites,
                   errWrites, engineLoaded, exitStatus, pipes>>

\* worker.rs:117-126: the outcome is logged, then answered
WLogResult ==
    /\ mode \in {"parent", "standalone"}
    /\ wpc = "log_result"
    /\ eprintln
    /\ write_response(IF wResult.kind = "Ok" THEN success(wResult.val)
                                              ELSE error(wResult.val))
    /\ wpc' = "exit"
    /\ UNCHANGED <<dvars, mode, fvars, pside, wNeed, wRead, count_buf,
                   sample_count, wAlloc, engineLog, engineLoaded, wResult,
                   exitStatus, stdinPipe>>

\* worker.rs:56, 68, 73, 90, 109, 128: run_worker returns Ok(()), the
\* process exits with status 0 and its ends of the pipes close
WExit ==
    /\ mode \in {"parent", "standalone"}
    /\ wpc = "exit"
    /\ wpc' = "exited"
    /\ exitStatus' = "exit0"
    /\ UNCHANGED <<dvars, mode, fvars, pside, wNeed, wRead, count_buf,
                   sample_count, wAlloc, engineLog, wResp, respWrites,
                   errWrites, engineLoaded, wResult, pipes>>

\* worker.rs:102, 115, 128: the process is brought down inside the native
\* engine, while it loads, runs or is released when run_worker returns;
\* the parent then sees a status that is not zero (subprocess.rs:182)
WCrash ==
    /\ mode \in {"parent", "standalone"}
    /\ \/ wpc \in {"load", "transcribe"}
       \/ wpc = "exit" /\ wResult.kind # "None"
    /\ wpc' = "exited"
    /\ exitStatus' = "signal"
    /\ UNCHANGED <<dvars, mode, fvars, pside, wNeed, wRead, count_buf,
                   sample_count, wAlloc, engineLog, wResp, respWrites,
                   errWrites, engineLoaded, wResult, pipes>>

ProtoNext ==
    \/ Call
    \/ Spawn
    \/ WriteCount
    \/ WriteSamples
    \/ WriteSamplesFailed
    \/ CloseStdin
    \/ ReadOutput
    \/ ReadEof
    \/ Wait
    \/ ReadStderr
    \/ Resolve
    \/ WReadCount
    \/ WReadCountFailed
    \/ WReadSamples
    \/ WReadSamplesFailed
    \/ WLogReceived
    \/ WLogLoading
    \/ WEngineLog
    \/ WLoadModel
    \/ WLogStarting
    \/ WTranscribe
    \/ WLogResult
    \/ WExit
    \/ WCrash

ProtoSpec == ProtoInit /\ [][ProtoNext]_vars

\* ----------------------------------------------------------------- claims

HandleHotkey == PressedIdle \/ PressedIgnored \/ ReleasedRecording \/ ReleasedIgnored

LoopRunning == pc \in {"select", "transcribe", "output"}

\* a step in which a recording starts: the state becomes Recording from
\* another state, or a received event starts a capture while Recording
EntersRecording ==
    /\ state' = "Recording"
    /\ \/ state # "Recording"
       \/ /\ hotkey_rx # <<>>
          /\ hotkey_rx' = Tail(hotkey_rx)
          /\ logged' = "Audio capture started successfully"

\* C1: a key-pressed event the listener sent while the session state was
\* Recording, Transcribing or Outputting never starts a recording, neither
\* when it is sent nor later: every recording is started by an event that
\* was sent while the state was Idle.
C1_BusyPressNeverStartsRecording ==
    [][EntersRecording =>
          (hotkey_rx # <<>> /\ Head(hotkey_rx).sentIn = "Idle")]_vars

\* C2: while a transcription is in flight the loop keeps servicing its
\* other sources: a pending shutdown signal can be serviced in every
\* session state, and a queued hotkey event can be received while
\* Transcribing.
C2_StimuliServicedWhileTranscribing ==
    LoopRunning =>
        /\ (ctrl_c = "pending" => ENABLED Shutdown)
        /\ (state = "Transcribing" /\ hotkey_rx # <<>> => ENABLED HandleHotkey)

\* C3: every transition into Recording starts from Idle, while the loop
\* waits in select!, on a received Pressed event whose capture was created
\* and started.
C3_RecordingOnlyFromIdle ==
    [][EntersRecording =>
          /\ state = "Idle"
          /\ pc = "select"
          /\ hotkey_rx # <<>>
          /\ Head(hotkey_rx).event = "Pressed"
          /\ logged' = "Audio capture started successfully"
          /\ audio_capture' = "Some"]_vars

\* C3 witness: a recording has just been started
C3_Witness ==
    /\ state = "Recording"
    /\ audio_capture = "Some"
    /\ logged = "Audio capture started successfully"

\* a step in which the release path stopped the capture and got a buffer
ReleaseGotSamples ==
    /\ state = "Recording"
    /\ stopCalls' = stopCalls + 1
    /\ samples' # NoSamples

\* C4: on key release in Recording a buffer of fewer than 4800 samples is
\* discarded (Recording -> Idle, transcriber not invoked); a buffer of
\* 4800 samples or more goes to Transcribing and the transcriber is
\* invoked exactly once for the utterance.
C4_ShortBufferDiscarded ==
    [][/\ (ReleaseGotSamples /\ samples' < 4800) =>
              (state' = "Idle" /\ pc' = "select" /\ transcribeCalls' = 0)
       /\ (ReleaseGotSamples /\ samples' >= 4800) =>
              (state' = "Transcribing" /\ audio' = samples'
                  /\ transcribeCalls = 0 /\ transcribeCalls' = 1)
       /\ (transcribeCalls' > transcribeCalls) =>
              (ReleaseGotSamples /\ samples' >= 4800)]_vars

\* C4 witness: a buffer of exactly 4800 samples is being transcribed
C4_Witness ==
    /\ state = "Transcribing"
    /\ samples = 4800
    /\ transcribeCalls = 1

\* C5: when the timeout check observes elapsed > max_duration the capture
\* is stopped, the state becomes Idle and nothing is transcribed; a
\* Released event received afterwards, in Idle, changes nothing.
C5_TimeoutStopsWithoutTranscription ==
    [][/\ (state = "Recording" /\ logged' = "Recording timeout") =>
              /\ elapsed > MaxDurationTicks
              /\ state' = "Idle"
              /\ audio_capture' = "None"
              /\ stopCalls' = stopCalls + 1
              /\ transcribeCalls' = 0
              /\ pc' = "select"
       /\ (/\ pc = "select"
           /\ state = "Idle"
           /\ hotkey_rx # <<>>
           /\ Head(hotkey_rx).event = "Released"
           /\ hotkey_rx' = Tail(hotkey_rx)) =>
              UNCHANGED <<pc, state, audio, text, audio_capture, stateFile,
                          transcribeCalls, outputLog, stopCalls, samples>>]_vars

\* C5 witness: the timeout has fired while the Released event of that
\* recording was still waiting in the channel
C5_Witness ==
    /\ logged = "Recording timeout"
    /\ state = "Idle"
    /\ hotkey_rx # <<>>
    /\ Head(hotkey_rx).event = "Released"
    /\ Head(hotkey_rx).sentIn = "Recording"

\* C6: once the elapsed recording time exceeds max_duration the loop
\* eventually leaves Recording, whatever hotkey events arrive meanwhile.
C6_RecordingEventuallyLeft ==
    (pc = "select" /\ state = "Recording" /\ elapsed > MaxDurationTicks)
        ~> (pc # "select" \/ state # "Recording")

\* C7: the output chain is invoked exactly once, with the returned text, if
\* and only if the transcription succeeded with non-empty text, and never
\* otherwise; the state ends Idle in every case, also when output fails.
C7_OutputOnceIffNonEmptyText ==
    /\ Len(outputLog) <= 1
    /\ (outputLog # <<>>) <=> (text_result.kind = "Ok" /\ text_result.text # "")
    /\ outputLog # <<>> => outputLog[1] = text_result.text
    /\ logged \in {"Transcription was empty", "Transcription failed",
                   "Transcription task failed", "Output delivered",
                   "Output failed"}
          => (state = "Idle" /\ pc = "select")
    /\ text_result.kind # "None" /\ pc = "select" => state = "Idle"

\* C7 witness: the text was handed to the output chain, delivery failed
C7_Witness ==
    /\ outputLog = <<"hello world">>
    /\ logged = "Output failed"
    /\ state = "Idle"

PerUtteranceFailures ==
    {"Failed to create audio capture", "Failed to start audio",
     "Recording error", "Transcription failed", "Transcription task failed",
     "Output failed"}

\* C8: after every per-utterance failure the state is Idle, no capture is
\* held, the loop is still waiting in select!, and a Pressed event that
\* is next in the channel can start a recording.
C8_FailuresLeaveLoopIdle ==
    logged \in PerUtteranceFailures =>
        /\ state = "Idle"
        /\ pc = "select"
        /\ audio_capture = "None"
        /\ (hotkey_rx # <<>> /\ Head(hotkey_rx).event = "Pressed"
               => ENABLED (PressedIdle /\ state' = "Recording"))

\* C8 witness: the transcription task failed and a Pressed event waits
C8_Witness ==
    /\ logged = "Transcription task failed"
    /\ hotkey_rx # <<>>
    /\ Head(hotkey_rx).event = "Pressed"

\* C9: once the shutdown has been serviced and run has returned, the
\* hotkey listener has been stopped and the configured state file has been
\* removed (unless the removal itself failed), whatever the outcome of
\* stopping the listener.
C9_ShutdownRemovesStateFile ==
    (pc \in {"returned_ok", "returned_err"} /\ logged # "init failed") =>
        /\ listenerStopped # "no"
        /\ (state_file_path /\ logged # "Failed to remove state file"
               => stateFile = Absent)

\* C10: with a configured state file whose writes all succeeded, the file
\* holds the name of the session state whenever that state is Idle,
\* Recording or Transcribing, and never any other value.
C10_StateFileMirrorsState ==
    (state_file_path /\ ~writeFailed /\ pc \in {"select", "transcribe", "output", "cleanup"}) =>
        /\ stateFile \in {"idle", "recording", "transcribing"}
        /\ (state = "Idle" => stateFile = "idle")
        /\ (state = "Recording" => stateFile = "recording")
        /\ (state = "Transcribing" => stateFile = "transcribing")

\* C10 witness: back in Idle after a transcription, the file reads idle
C10_Witness ==
    /\ state_file_path
    /\ ~writeFailed
    /\ pc = "select"
    /\ state = "Idle"
    /\ text_result.kind # "None"
    /\ stateFile = "idle"

\* C12: the result is decided by the parsed response alone: ok with text
\* is that text; ok without text is the protocol-violation error; not ok
\* is an error carrying the error field, or the fixed unknown message
\* when the field is absent, also when a text field is present.
C12_ResultFromResponse ==
    fnOp = "resolve" =>
        /\ (fnIn.ok /\ fnIn.text.some) => fnOut = Ok(fnIn.text.val)
        /\ (fnIn.ok /\ ~fnIn.text.some) =>
              (fnOut.kind = "Err" /\ fnOut.val = <<"Worker returned ok but no text">>)
        /\ (~fnIn.ok /\ fnIn.error.some) =>
              (fnOut.kind = "Err" /\ fnOut.val = fnIn.error.val)
        /\ (~fnIn.ok /\ ~fnIn.error.some) =>
              (fnOut.kind = "Err" /\ fnOut.val = <<"Unknown worker error">>)

\* C12 witness: ok=false with a text field present resolved to the error
C12_Witness ==
    /\ fnOp = "resolve"
    /\ ~fnIn.ok
    /\ fnIn.text.some
    /\ fnIn.error = Some(<<"model not found">>)
    /\ fnOut.kind = "Err"

\* the line after the last newline of the output, a final newline set aside
C19_Body(out) ==
    IF out # <<>> /\ out[Len(out)] = NL THEN SubSeq(out, 1, Len(out) - 1) ELSE out

C19_LastOf(out) ==
    LET b == C19_Body(out)
        nls == {i \in 1..Len(b) : b[i] = NL}
        k == IF nls = {} THEN 0 ELSE CHOOSE i \in nls : \A j \in nls : j <= i
    IN SubSeq(b, k + 1, Len(b))

\* the lines of the inputs that are valid responses, and what they hold
C19_Valid ==
    {to_string(success(<<"hello world">>)),
     to_string(error(<<"model not found">>)),
     to_string(success(<<"a", NL, QT, BS, "n">>)),
     <<"{", K_ok, "true", "}">>,
     <<"{", K_ok, "false", ",", K_text, QT, "t", QT, ",", K_error, QT, "m", QT, "}">>}

\* C19: only the last line of the output is parsed, whatever precedes it;
\* when the last line is not a valid response (empty output included) the
\* outcome is the parse error.
C19_OnlyLastLineParsed ==
    fnOp = "read_worker_response" =>
        /\ fnOut = from_str(C19_LastOf(fnIn))
        /\ (C19_LastOf(fnIn) \notin C19_Valid) => ~fnOut.valid
        /\ (C19_LastOf(fnIn) = to_string(error(<<"model not found">>))) =>
              fnOut = [valid |-> TRUE, ok |-> FALSE, text |-> None,
                       error |-> Some(<<"model not found">>)]

\* C19 witness: an invalid line precedes the response that was parsed
C19_Witness ==
    /\ fnOp = "read_worker_response"
    /\ Len(lines(fnIn)) = 2
    /\ lines(fnIn)[1] = <<"[worker]", "loading">>
    /\ fnOut.valid
    /\ fnOut.text = Some(<<"hello world">>)

\* C16: for 0 < c <= 9,600,000 the payload has 4 + 4c bytes, and the
\* worker decodes from it the count c and the samples it was made from.
C16_PayloadRoundTrip ==
    (fnOp = "codec" /\ fnIn.buf.len > 0 /\ fnIn.buf.len <= 9600000) =>
        /\ fnOut.bytes = 4 + 4 * fnIn.buf.len
        /\ fnOut.count = fnIn.buf.len
        /\ \A i \in CheckedIdx(fnIn.buf.len) :
              fnOut.decoded[i] = Sample(fnIn.buf, i)

\* C16 witness: a buffer of the ceiling length on a big-endian host
C16_Witness ==
    /\ fnOp = "codec"
    /\ fnIn.buf.len = 9600000
    /\ fnIn.endian = "BE"
    /\ fnIn.buf.pat = <<(<<63, 128, 0, 0>>), (<<0, 128, 1, 2>>)>>
    /\ fnOut.count = 9600000

\* the worker has answered with an error response and has exited
WorkerAnsweredError ==
    /\ wpc = "exited"
    /\ respWrites = 1
    /\ wResp.variant = "Error"

\* C11: whenever the worker wrote an error response {ok:false, error:m} as
\* its last stdout line and exited, at whatever point of its protocol, the
\* transcribe call that spawned it returns an error carrying exactly m.
C11_ErrorMessageCrossesBoundary ==
    (mode = "parent" /\ ppc = "returned" /\ WorkerAnsweredError) =>
        (result.kind = "Err" /\ result.val = wResp.body)

C13_Now ==
    /\ (mode = "parent" /\ ppc # "idle" /\ buf.len = 0) =>
          /\ ppc = "returned"
          /\ result.kind = "Err"
          /\ spawnCalls = 0
          /\ handle = 0
          /\ wpc = "none"
          /\ written = 0
          /\ stdinPipe = NoPipe /\ stdoutPipe = <<>> /\ stderrPipe = 0
    /\ spawnCalls <= 1
    /\ (mode = "parent" /\ ppc \notin {"idle", "spawn"} /\ buf.len > 0) => spawnCalls = 1
    /\ (mode = "parent" /\ handle # 0) => handle = pid

C13_Step ==
    /\ (pid' # pid) => (pid' = pid + 1 /\ spawnCalls = 0 /\ spawnCalls' = 1)
    /\ (handle' # handle) =>
          \/ handle' = 0 /\ calls' = calls + 1
          \/ handle' = pid' /\ pid' = pid + 1

C14_CountCheckedBeforeReading ==
    (Len(count_buf) = 4) =>
        LET c == from_le_bytes(count_buf) IN
        /\ (c = 0 \/ c > 9600000) =>
              /\ wpc \in {"exit", "exited"}
              /\ respWrites = 1
              /\ wResp.variant = "Error"
              /\ ~wResp.ok
              /\ wRead = 4
              /\ wAlloc = 0
              /\ ~engineLoaded
        /\ (c > 0 /\ c <= 9600000) =>
              /\ wAlloc = c
              /\ wRead <= 4 + 4 * c
              /\ engineLoaded => wRead = 4 + 4 * c

C14_Witness ==
    /\ mode = "standalone"
    /\ count_buf = to_le_bytes(9600001)
    /\ wpc = "exited"
    /\ wResp = error(<<"Sample count too large: ", "9600001", " (max ", "9600000", ")">>)
    /\ stdinPipe.body > 0

\* everything the worker has put on its stdout
StdoutStream == output \o stdoutPipe

\* C15: on every path of run_worker (truncated count, oversized count,
\* zero count, truncated samples, engine load failure, transcription
\* failure, success) the worker's stdout carries exactly one response line
\* and nothing else, and the process ends by run_worker returning Ok.
C15_OneResponseThenCleanExit ==
    /\ respWrites <= 1
    /\ (respWrites = 0) => StdoutStream = <<>>
    /\ (respWrites = 1) => StdoutStream = writeln(to_string(wResp))
    /\ (wpc = "exit") => respWrites = 1
    /\ (wpc = "exited" /\ exitStatus # "signal") =>
          /\ respWrites = 1
          /\ exitStatus = "exit0"

C15_Witness ==
    /\ mode = "standalone"
    /\ wpc = "exited"
    /\ exitStatus = "exit0"
    /\ count_buf = <<>>
    /\ wRead = 3
    /\ respWrites = 1
    /\ wResp = error(<<"Failed to read sample count: ", UnexpectedEof>>)

\* what the parent's parser must make of a worker response
C17_Parsed(r) ==
    [valid |-> TRUE, ok |-> (r.variant = "Success"),
     text |-> IF r.variant = "Success" THEN Some(r.body) ELSE None,
     error |-> IF r.variant = "Error" THEN Some(r.body) ELSE None]

\* C17: what the worker serializes is one line, and the parent's parser
\* reads it back as ok=true with exactly the text (never absent) for
\* success(t), as ok=false with exactly the message for error(m); every
\* error response the worker constructs carries a non-empty message.
C17_ResponseRoundTrip ==
    (respWrites = 1) =>
        /\ Len(lines(StdoutStream)) = 1
        /\ from_str(lines(StdoutStream)[1]) = C17_Parsed(wResp)
        /\ (wResp.variant = "Error") => wResp.body # <<>>
        /\ (mode = "parent" /\ ppc \in {"wait", "stderr", "resolve"}) =>
              response = C17_Parsed(wResp)

C17_Witness ==
    /\ mode = "parent"
    /\ ppc = "resolve"
    /\ wResp = success(<<"a", NL, QT, BS, "n">>)
    /\ response.ok
    /\ response.text = Some(<<"a", NL, QT, BS, "n">>)

\* C18: the result of transcribe is made from the parsed response alone,
\* the same for a worker that exited with status zero and for one that did
\* not; a non-zero status only makes the parent read the error stream.
C18_ExitStatusIgnored ==
    (mode = "parent" /\ ppc = "returned" /\ reaped) =>
        /\ result = resolve(response)
        /\ stderrRead <=> (exitStatus # "exit0")

C18_Witness ==
    /\ mode = "parent"
    /\ ppc = "returned"
    /\ reaped
    /\ exitStatus = "signal"
    /\ stderrRead
    /\ result = Ok(<<"hello world">>)

\* transcribe cannot take its next step before the worker acts
ParentBlocked ==
    /\ mode = "parent"
    /\ wpc \notin {"none", "exited"}
    /\ \/ ppc = "write_samples" /\ toWrite > 0 /\ Space(stdinPipe) = 0
       \/ ppc = "read" /\ stdoutPipe = <<>>
       \/ ppc = "wait"

\* the worker cannot take its next step before the parent acts
WorkerBlocked ==
    /\ mode = "parent"
    /\ \/ wpc = "read_count" /\ Len(stdinPipe.hdr) < 4 /\ stdinPipe.open
       \/ wpc = "read_samples" /\ stdinPipe.body = 0 /\ stdinPipe.open
       \/ /\ wpc \in {"log_received", "log_loading", "log_starting", "log_result"}
          /\ stderrPipe >= StderrCap
       \/ wpc = "load" /\ engineLog > 0 /\ stderrPipe >= StderrCap

\* C20: with bounded pipes on the worker's three streams, transcribe and a
\* worker that follows its protocol never reach a state in which each
\* waits for the other, so the call always comes to return.
C20_NeverBothBlocked == ~(ParentBlocked /\ WorkerBlocked)

\* C21: every worker process that transcribe spawned has been waited for
\* when transcribe returns, on every path: success, error response,
\* failure to write the payload, failure to read or parse the response.
C21_WorkerReapedBeforeReturn ==
    (mode = "parent" /\ ppc = "returned" /\ handle # 0) => reaped

\* C23: with the recording-start notification enabled, a start notification
\* is sent only for a key press that takes the session from Idle to
\* Recording; a key press whose capture creation or start fails leaves the
\* session Idle, sends no notification and leaves the state file as it was.
C23_NotificationOnlyWithRecording ==
    [][PressedIdle =>
          /\ notified' => (state = "Idle" /\ state' = "Recording")
          /\ state' = "Idle" => (~notified' /\ stateFile' = stateFile)]_vars

\* where the loop waits in select!, a capture handle is held exactly when
\* the session is Recording, and a recording has been stopped at most once
C24_Now ==
    /\ pc = "select" => (audio_capture = "Some" <=> state = "Recording")
    /\ stopCalls <= 1
    /\ state = "Recording" => stopCalls = 0

C24_Step ==
    \* a handle is stored only into the empty slot, by the start of a recording
    /\ (audio_capture' = "Some" /\ audio_capture = "None") =>
          (state = "Idle" /\ state' = "Recording" /\ stopCalls' = 0)
    \* leaving Recording takes the handle out and stops it, once
    /\ (state = "Recording" /\ state' # "Recording") =>
          /\ audio_capture = "Some"
          /\ audio_capture' = "None"
          /\ stopCalls' = 1
          /\ logged' \in {"Recording timeout", "Recording error",
                          "Recording too short", "Transcribing audio"}
    \* the handle is stopped only by the step that takes it out
    /\ (stopCalls' # stopCalls /\ stopCalls' # 0) =>
          (audio_capture = "Some" /\ audio_capture' = "None")

\* C24: wherever the event loop waits for its next stimulus an audio-capture
\* handle is held if and only if the session is Recording; the handle of a
\* recording is taken out and stopped exactly once, by the release path or
\* by the timeout path and never by both, and a new handle is stored only
\* when none is held.
C24_HandleHeldIffRecording == []C24_Now /\ [][C24_Step]_vars

\* a recording ended by the timeout path: the handle was taken out and
\* stopped once, none is held while the loop waits again
C24_Witness ==
    /\ pc = "select"
    /\ state = "Idle"
    /\ logged = "Recording timeout"
    /\ audio_capture = "None"
    /\ stopCalls = 1
    /\ samples = NoSamples
    /\ hotkey_rx = <<>>
    /\ notified

\* C25: for every non-empty buffer of n samples handed to transcribe the
\* sample count written as the header equals n and the bytes of exactly n
\* samples follow it, so the count the worker decodes is the number of
\* samples sent; a buffer longer than the worker's ceiling is never sent
\* with a count the worker accepts.
C25_HeaderEqualsLength ==
    fnOp = "count" =>
        /\ fnOut.body = fnIn.len
        /\ fnOut.body = [hi |-> 0, lo |-> fnOut.sample_count]
        /\ (fnIn.len.hi > 0 \/ fnIn.len.lo > MAX_SAMPLES) => fnOut.verdict = "too_large"

\* a step of the loop that has the effect on the session kept in fnOut
Replays == Next /\ Core' = fnOut

\* C22: state-file I/O has no feedback into the state machine.  Whatever
\* step the loop took from a state, the same state with any other state-file
\* configuration and file content (a path configured or not) has a step with
\* the same effect on the session state and on the capture, transcriber and
\* output invocations, both with the file operation of that step succeeding
\* and with it failing.
C22_StateFileHasNoFeedback ==
    fnOp = "rewound" =>
        /\ ENABLED (Replays /\ ~writeFailed')
        /\ ENABLED (Replays /\ (writeFailed' \/ stateFile' = stateFile))

\* the start of a recording, taken in some run, is replayed where a path is
\* configured and no file exists yet
C22_Witness ==
    /\ fnOp = "rewound"
    /\ state_file_path
    /\ stateFile = Absent
    /\ state = "Idle"
    /\ fnOut.state = "Recording"
    /\ fnOut.audio_capture = "Some"

====
